---------------------------- MODULE Spec2Model ----------------------------
(***************************************************************************)
(* A model of h2/events.py: the event records of the HTTP/2 engine, the    *)
(* settings diff built by RemoteSettingsChanged.from_settings, and the     *)
(* debug rendering (_bytes_representation and the __repr__ methods).       *)
(*                                                                         *)
(* Python values are tagged records: None, the placeholder object          *)
(* _LAZY_INIT, int, bool, bytes (a sequence of 0..255), str (a sequence of *)
(* code points) and list.  A call either returns a value or raises.        *)
(***************************************************************************)
EXTENDS Integers, Sequences, FiniteSets, TLC

VARIABLES
    old_settings,   \* from_settings: the prior-settings mapping O
    new_settings,   \* from_settings: the changed settings N, in dict order
    diff,           \* outcome of the last from_settings call, or NoCall
    calls,          \* log of _bytes_representation calls
    ev,             \* the event object a caller of the record API holds
    fresh,          \* TRUE while ev is exactly as its constructor left it
    shown,          \* outcome of the last repr(ev), or NoCall
    client_side,    \* producer: TRUE for a client connection, FALSE for a server
    heap,           \* producer: every event object built so far, by identity
    building,       \* producer: identities of the batch being built
    delivered,      \* producer: the batches handed to the caller
    dicts,          \* snapshot: every dict object, by identity; 1 is O, 2 is N
    returned        \* snapshot: the events from_settings has returned

vars == <<old_settings, new_settings, diff, calls, ev, fresh, shown,
          client_side, heap, building, delivered, dicts, returned>>

settingsVars == <<old_settings, new_settings, diff>>
bytesVars == <<calls>>
reprVars == <<ev, fresh, shown>>
producerVars == <<client_side, heap, building, delivered>>
snapshotVars == <<dicts, returned>>

----------------------------------------------------------------------------
(* Bounds of the model.                                                    *)

MaxLen == 3          \* longest byte string enumerated exhaustively
MaxCalls == 2        \* longest log of _bytes_representation calls
MaxBatches == 1      \* batches the producer delivers
MaxBatchLen == 2     \* events in one batch
MaxDiffs == 2        \* from_settings calls whose events are kept

----------------------------------------------------------------------------
(* Python values.                                                          *)

None == [t |-> "None"]
PyInt(n) == [t |-> "int", v |-> n]
PyBool(b) == [t |-> "bool", v |-> b]
PyBytes(s) == [t |-> "bytes", v |-> s]
PyStr(s) == [t |-> "str", v |-> s]
PyList(s) == [t |-> "list", v |-> s]

\* _LAZY_INIT: Any = object()
_LAZY_INIT == [t |-> "object"]

Return(v) == [raised |-> FALSE, value |-> v]
Raise(e) == [raised |-> TRUE, exc |-> e]
NoCall == [raised |-> FALSE, nocall |-> TRUE]

\* bool(x) as Python's truth test applies it to the values of the model.
Truthy(x) ==
    CASE x.t = "None" -> FALSE
      [] x.t = "bool" -> x.v
      [] x.t = "int" -> x.v # 0
      [] x.t \in {"bytes", "str", "list"} -> Len(x.v) > 0
      [] OTHER -> TRUE

\* x[:n] : bytes can be sliced, a plain object() cannot.
SliceTo(x, n) ==
    IF x.t \in {"bytes", "str", "list"}
    THEN Return([t |-> x.t, v |-> SubSeq(x.v, 1, IF Len(x.v) < n THEN Len(x.v) ELSE n)])
    ELSE Raise("TypeError")

----------------------------------------------------------------------------
(* _bytes_representation                                                   *)

\* Code points of "0123456789abcdef".
HexDigits == <<48, 49, 50, 51, 52, 53, 54, 55, 56, 57, 97, 98, 99, 100, 101, 102>>

RECURSIVE HexOf(_)
HexOf(s) ==
    IF s = <<>> THEN <<>>
    ELSE <<HexDigits[(Head(s) \div 16) + 1], HexDigits[(Head(s) % 16) + 1]>>
         \o HexOf(Tail(s))

\* hexlify with upper-case digits, as bytes.hex().upper() would give.
UpperHexDigits == <<48, 49, 50, 51, 52, 53, 54, 55, 56, 57, 65, 66, 67, 68, 69, 70>>

RECURSIVE UpperHexOf(_)
UpperHexOf(s) ==
    IF s = <<>> THEN <<>>
    ELSE <<UpperHexDigits[(Head(s) \div 16) + 1], UpperHexDigits[(Head(s) % 16) + 1]>>
         \o UpperHexOf(Tail(s))

hexlify_upper(data) ==
    IF data.t = "bytes" THEN Return(PyBytes(UpperHexOf(data.v))) ELSE Raise("TypeError")

\* binascii.hexlify(data): a bytes object of two hex digits per input byte;
\* TypeError for an argument that is not bytes-like.
hexlify(data) ==
    IF data.t = "bytes" THEN Return(PyBytes(HexOf(data.v))) ELSE Raise("TypeError")

\* bytes.decode("ascii"): the same code points, UnicodeDecodeError above 127.
decode_ascii(b) ==
    IF \E i \in 1..Len(b.v) : b.v[i] > 127
    THEN Raise("UnicodeDecodeError")
    ELSE Return(PyStr(b.v))

\* The rendering without hexlify: the payload itself decoded as ASCII.
_bytes_representation_decoding(data) ==
    IF data = None THEN Return(None)
    ELSE IF data.t = "bytes" THEN decode_ascii(data) ELSE Raise("TypeError")

_bytes_representation(data) ==
    IF data = None THEN Return(None)
    ELSE LET h == hexlify(data)
         IN  IF h.raised THEN h ELSE decode_ascii(h.value)

----------------------------------------------------------------------------
(* Text: str(x) as the format fields of the __repr__ methods apply it, and *)
(* bytes.decode("utf-8", "ignore").                                        *)

RECURSIVE Digits(_)
Digits(n) == IF n < 10 THEN <<48 + n>> ELSE Digits(n \div 10) \o <<48 + (n % 10)>>

\* A formatted string: the literal text fmt with args in its fields.
Formatted(fmt, args) == [t |-> "str", fmt |-> fmt, args |-> args]

\* str(x) for the values a field of an event holds. The default text of a
\* plain object() is "<object object at 0x...>"; the address is left out.
Format(x) ==
    CASE x.t = "None" -> PyStr(<<78, 111, 110, 101>>)
      [] x.t = "int" -> PyStr(IF x.v < 0 THEN <<45>> \o Digits(0 - x.v) ELSE Digits(x.v))
      [] x.t = "bool" -> PyStr(IF x.v THEN <<84, 114, 117, 101>> ELSE <<70, 97, 108, 115, 101>>)
      [] x.t = "str" -> x
      [] x.t = "list" -> Formatted("[{}]", x.v)
      [] x.t = "object" -> PyStr(<<60, 111, 98, 106, 101, 99, 116, 32, 111, 98, 106, 101, 99, 116, 62>>)
      [] OTHER -> Formatted("<{} object>", <<x.t>>)

IsContinuation(b) == b \in 128..191

\* What the UTF-8 decoder does at the head of s: the code point it emits
\* (or none) and the number of bytes it consumes. An invalid sequence
\* consumes its longest valid prefix, which the "ignore" handler drops.
Utf8Head(s) ==
    LET n == Len(s)
        c1 == s[1]
        emit(cp, k) == [cp |-> <<cp>>, used |-> k]
        drop(k) == [cp |-> <<>>, used |-> k]
    IN  IF c1 < 128 THEN emit(c1, 1)
        ELSE IF c1 < 194 THEN drop(1)
        ELSE IF c1 < 224 THEN
            IF n < 2 THEN drop(1)
            ELSE IF ~IsContinuation(s[2]) THEN drop(1)
            ELSE emit((c1 % 32) * 64 + (s[2] % 64), 2)
        ELSE IF c1 < 240 THEN
            IF n < 2 THEN drop(n)
            ELSE IF \/ ~IsContinuation(s[2])
                    \/ (IF s[2] < 160 THEN c1 = 224 ELSE c1 = 237) THEN drop(1)
            ELSE IF n < 3 THEN drop(n)
            ELSE IF ~IsContinuation(s[3]) THEN drop(2)
            ELSE emit((c1 % 16) * 4096 + (s[2] % 64) * 64 + (s[3] % 64), 3)
        ELSE IF c1 < 245 THEN
            IF n < 2 THEN drop(n)
            ELSE IF \/ ~IsContinuation(s[2])
                    \/ (IF s[2] < 144 THEN c1 = 240 ELSE c1 = 244) THEN drop(1)
            ELSE IF n < 3 THEN drop(n)
            ELSE IF ~IsContinuation(s[3]) THEN drop(2)
            ELSE IF n < 4 THEN drop(n)
            ELSE IF ~IsContinuation(s[4]) THEN drop(3)
            ELSE emit((c1 % 8) * 262144 + (s[2] % 64) * 4096
                      + (s[3] % 64) * 64 + (s[4] % 64), 4)
        ELSE drop(1)

RECURSIVE Utf8Ignore(_)
Utf8Ignore(s) ==
    IF s = <<>> THEN <<>>
    ELSE LET h == Utf8Head(s)
         IN  h.cp \o Utf8Ignore(SubSeq(s, h.used + 1, Len(s)))

\* b.decode("utf-8", "ignore")
decode_utf8_ignore(b) ==
    IF b.t = "bytes" THEN Return(PyStr(Utf8Ignore(b.v))) ELSE Raise("AttributeError")

\* x or y
Or(x, y) == IF Truthy(x) THEN x ELSE y

----------------------------------------------------------------------------
(* Dictionaries: entries in insertion order, keys unique under ==.         *)

\* a == b for the keys of a settings mapping: an IntEnum member equals, and
\* hashes as, the int it wraps.
PyEq(a, b) ==
    IF a.t \in {"int", "SettingCodes"} /\ b.t \in {"int", "SettingCodes"}
    THEN a.v = b.v
    ELSE a = b

HasKey(d, k) == \E i \in 1..Len(d) : PyEq(d[i].key, k)

IndexOf(d, k) == CHOOSE i \in 1..Len(d) : PyEq(d[i].key, k)

\* d[k] = v : a present key keeps its place and its key object.
DictSet(d, k, v) ==
    IF HasKey(d, k)
    THEN [d EXCEPT ![IndexOf(d, k)].value = v]
    ELSE Append(d, [key |-> k, value |-> v])

\* d.get(k)
DictGet(d, k) == IF HasKey(d, k) THEN d[IndexOf(d, k)].value ELSE None

\* d[k], which raises KeyError for a missing key.
DictSubscript(d, k) ==
    IF HasKey(d, k) THEN Return(d[IndexOf(d, k)].value) ELSE Raise("KeyError")

----------------------------------------------------------------------------
(* RemoteSettingsChanged.from_settings                                     *)

\* The values of h2.settings.SettingCodes.
KnownSettingCodes == {1, 2, 3, 4, 5, 6, 8}

\* h2.settings._setting_code_from_int: the SettingCodes member of a known
\* code, the raw number of any other.
_setting_code_from_int(code) ==
    IF code.v \in KnownSettingCodes
    THEN [t |-> "SettingCodes", v |-> code.v]
    ELSE PyInt(code.v)

\* h2.settings.ChangedSetting(setting, original_value, new_value)
ChangedSetting(setting, original_value, new_value) ==
    [t |-> "ChangedSetting", setting |-> setting,
     original_value |-> original_value, new_value |-> new_value]

\* RemoteSettingsChanged.__init__
RemoteSettingsChanged_init == [t |-> "RemoteSettingsChanged", changed_settings |-> <<>>]

\* old_settings[s] in place of old_settings.get(s).
old_settings_subscript(old, s) == DictSubscript(old, s)

\* original_value = old_settings.get(s)
old_settings_get(old, s) == Return(DictGet(old, s))

\* The loop body with the two values of the change swapped.
from_settings_step_swapped(e, old, setting, new_value) ==
    LET s == _setting_code_from_int(setting)
        original_value == old_settings_get(old, s)
    IN  IF original_value.raised THEN original_value
        ELSE LET change == ChangedSetting(s, new_value, original_value.value)
             IN  Return([e EXCEPT !.changed_settings = DictSet(@, s, change)])

\* One iteration of the loop of from_settings on the event e.
from_settings_step(e, old, setting, new_value) ==
    LET s == _setting_code_from_int(setting)
        original_value == old_settings_get(old, s)
    IN  IF original_value.raised THEN original_value
        ELSE LET change == ChangedSetting(s, original_value.value, new_value)
             IN  Return([e EXCEPT !.changed_settings = DictSet(@, s, change)])

RECURSIVE from_settings_loop(_, _, _)
from_settings_loop(e, old, items) ==
    IF items = <<>> THEN Return(e)
    ELSE LET r == from_settings_step(e, old, Head(items).key, Head(items).value)
         IN  IF r.raised THEN r ELSE from_settings_loop(r.value, old, Tail(items))

\* A diff over the old settings as well as the new ones: the unchanged
\* settings get an entry too.
from_settings_all(old, new) ==
    from_settings_loop(RemoteSettingsChanged_init, old, old \o new)

from_settings(old, new) ==
    from_settings_loop(RemoteSettingsChanged_init, old, new)

----------------------------------------------------------------------------
(* The event classes: what each constructor leaves in the fields.          *)

\* The class as it was before the nested events were added to it.
RequestReceived_init_plain ==
    [t |-> "RequestReceived", stream_id |-> None, headers |-> None]

RequestReceived_init ==
    [t |-> "RequestReceived", stream_id |-> None, headers |-> None,
     stream_ended |-> None, priority_updated |-> None]

ResponseReceived_init ==
    [t |-> "ResponseReceived", stream_id |-> None, headers |-> None,
     stream_ended |-> None, priority_updated |-> None]

TrailersReceived_init ==
    [t |-> "TrailersReceived", stream_id |-> None, headers |-> None,
     stream_ended |-> None, priority_updated |-> None]

InformationalResponseReceived_init ==
    [t |-> "InformationalResponseReceived", stream_id |-> None, headers |-> None,
     priority_updated |-> None]

\* The dataclasses: kw holds the keyword arguments given, stream_id among
\* them; the other fields take their class defaults.
DataReceived(kw) ==
    kw @@ [t |-> "DataReceived", data |-> _LAZY_INIT,
           flow_controlled_length |-> _LAZY_INIT, stream_ended |-> None]

WindowUpdated(kw) == kw @@ [t |-> "WindowUpdated", delta |-> None]

StreamReset(kw) ==
    kw @@ [t |-> "StreamReset", error_code |-> _LAZY_INIT, remote_reset |-> PyBool(TRUE)]

SettingsAcknowledged_init == [t |-> "SettingsAcknowledged", changed_settings |-> <<>>]

PingReceived_init == [t |-> "PingReceived", ping_data |-> None]

PingAckReceived_init == [t |-> "PingAckReceived", ping_data |-> None]

StreamEnded_init == [t |-> "StreamEnded", stream_id |-> None]

PushedStreamReceived_init ==
    [t |-> "PushedStreamReceived", pushed_stream_id |-> None,
     parent_stream_id |-> None, headers |-> None]

PriorityUpdated_init ==
    [t |-> "PriorityUpdated", stream_id |-> None, weight |-> None,
     depends_on |-> None, exclusive |-> None]

ConnectionTerminated_init ==
    [t |-> "ConnectionTerminated", error_code |-> None, last_stream_id |-> None,
     additional_data |-> None]

AlternativeServiceAvailable_init ==
    [t |-> "AlternativeServiceAvailable", origin |-> None, field_value |-> None]

UnknownFrameReceived_init == [t |-> "UnknownFrameReceived", frame |-> None]

----------------------------------------------------------------------------
(* The __repr__ methods.                                                   *)

\* The [:20] of DataReceived.__repr__ and ConnectionTerminated.__repr__.
ReprLimit == 20

HeadersEvent_repr(self) ==
    Return(Formatted("<" \o self.t \o " stream_id:{}, headers:{}>",
                     <<Format(self.stream_id), Format(self.headers)>>))

\* _bytes_representation(self.data[:20]) if self.data else ""
DataReceived_data_repr(data) ==
    IF Truthy(data)
    THEN LET head == SliceTo(data, ReprLimit)
         IN  IF head.raised THEN head ELSE _bytes_representation(head.value)
    ELSE Return(PyStr(<<>>))

DataReceived_repr(self) ==
    LET shownData == DataReceived_data_repr(self.data)
    IN  IF shownData.raised THEN shownData
        ELSE Return(Formatted("<DataReceived stream_id:{}, flow_controlled_length:{}, data:{}>",
                              <<Format(self.stream_id), Format(self.flow_controlled_length),
                                Format(shownData.value)>>))

WindowUpdated_repr(self) ==
    Return(Formatted("<WindowUpdated stream_id:{}, delta:{}>",
                     <<Format(self.stream_id), Format(self.delta)>>))

\* h2.settings.ChangedSetting.__repr__
ChangedSetting_repr(cs) ==
    Formatted("ChangedSetting(setting={}, original_value={}, new_value={})",
              <<Format(cs.setting), Format(cs.original_value), Format(cs.new_value)>>)

\* The text of either settings event: the repr of every value of the
\* mapping, joined by ", ".
ChangedSettings_repr(self) ==
    Return(Formatted("<" \o self.t \o " changed_settings:{{{}}}>",
                     <<Formatted("join", [i \in 1..Len(self.changed_settings) |->
                            ChangedSetting_repr(self.changed_settings[i].value)])>>))

\* The ping payload decoded as text in place of its hex rendering.
Ping_repr_decoded(self) ==
    LET shownData == IF self.ping_data = None THEN Return(None)
                     ELSE decode_utf8_ignore(self.ping_data)
    IN  IF shownData.raised THEN shownData
        ELSE Return(Formatted("<" \o self.t \o " ping_data:{}>", <<Format(shownData.value)>>))

\* PingReceived.__repr__ and PingAckReceived.__repr__
Ping_repr(self) ==
    LET shownData == _bytes_representation(self.ping_data)
    IN  IF shownData.raised THEN shownData
        ELSE Return(Formatted("<" \o self.t \o " ping_data:{}>", <<Format(shownData.value)>>))

StreamEnded_repr(self) ==
    Return(Formatted("<StreamEnded stream_id:{}>", <<Format(self.stream_id)>>))

StreamReset_repr(self) ==
    Return(Formatted("<StreamReset stream_id:{}, error_code:{}, remote_reset:{}>",
                     <<Format(self.stream_id), Format(self.error_code),
                       Format(self.remote_reset)>>))

PushedStreamReceived_repr(self) ==
    Return(Formatted("<PushedStreamReceived pushed_stream_id:{}, parent_stream_id:{}, headers:{}>",
                     <<Format(self.pushed_stream_id), Format(self.parent_stream_id),
                       Format(self.headers)>>))

PriorityUpdated_repr(self) ==
    Return(Formatted("<PriorityUpdated stream_id:{}, weight:{}, depends_on:{}, exclusive:{}>",
                     <<Format(self.stream_id), Format(self.weight),
                       Format(self.depends_on), Format(self.exclusive)>>))

ConnectionTerminated_repr(self) ==
    LET head == IF Truthy(self.additional_data)
                THEN SliceTo(self.additional_data, ReprLimit)
                ELSE Return(None)
        shownData == IF head.raised THEN head ELSE _bytes_representation(head.value)
    IN  IF shownData.raised THEN shownData
        ELSE Return(Formatted("<ConnectionTerminated error_code:{}, last_stream_id:{}, additional_data:{}>",
                              <<Format(self.error_code), Format(self.last_stream_id),
                                Format(shownData.value)>>))

AlternativeServiceAvailable_repr(self) ==
    LET origin == decode_utf8_ignore(Or(self.origin, PyBytes(<<>>)))
        field_value == decode_utf8_ignore(Or(self.field_value, PyBytes(<<>>)))
    IN  IF origin.raised THEN origin
        ELSE IF field_value.raised THEN field_value
        ELSE Return(Formatted("<AlternativeServiceAvailable origin:{}, field_value:{}>",
                              <<Format(origin.value), Format(field_value.value)>>))

UnknownFrameReceived_repr(self) == Return(Formatted("<UnknownFrameReceived>", <<>>))

HeaderEventClasses ==
    {"RequestReceived", "ResponseReceived", "TrailersReceived",
     "InformationalResponseReceived"}

\* repr(self): the __repr__ of the class of self.
repr(self) ==
    CASE self.t \in HeaderEventClasses -> HeadersEvent_repr(self)
      [] self.t = "DataReceived" -> DataReceived_repr(self)
      [] self.t = "WindowUpdated" -> WindowUpdated_repr(self)
      [] self.t \in {"RemoteSettingsChanged", "SettingsAcknowledged"} -> ChangedSettings_repr(self)
      [] self.t \in {"PingReceived", "PingAckReceived"} -> Ping_repr(self)
      [] self.t = "StreamEnded" -> StreamEnded_repr(self)
      [] self.t = "StreamReset" -> StreamReset_repr(self)
      [] self.t = "PushedStreamReceived" -> PushedStreamReceived_repr(self)
      [] self.t = "PriorityUpdated" -> PriorityUpdated_repr(self)
      [] self.t = "ConnectionTerminated" -> ConnectionTerminated_repr(self)
      [] self.t = "AlternativeServiceAvailable" -> AlternativeServiceAvailable_repr(self)
      [] self.t = "UnknownFrameReceived" -> UnknownFrameReceived_repr(self)

----------------------------------------------------------------------------
(* The inputs of the byte-rendering functions.                             *)

\* 0x00, "A" and 0xff, a byte that is valid in no text encoding of the code.
ByteSample == {0, 65, 255}

RECURSIVE SeqsUpTo(_, _)
SeqsUpTo(S, n) ==
    IF n = 0 THEN {<<>>}
    ELSE LET shorter == SeqsUpTo(S, n - 1)
         IN  shorter \cup {Append(s, x) : s \in {q \in shorter : Len(q) = n - 1}, x \in S}

\* Payloads around the 20-byte cut of the __repr__ methods.
LongPayloads == {[i \in 1..n |-> IF i > ReprLimit THEN 255 ELSE 65] : n \in {ReprLimit, ReprLimit + 1}}

ByteStrings == {PyBytes(s) : s \in SeqsUpTo(ByteSample, MaxLen) \cup LongPayloads}

OptionalBytes == {None} \cup ByteStrings

----------------------------------------------------------------------------
(* Calls of _bytes_representation, logged with argument and outcome.       *)

CallBytesRepresentation(b) ==
    /\ Len(calls) < MaxCalls
    /\ calls' = Append(calls, [arg |-> b, result |-> _bytes_representation(b)])
    /\ UNCHANGED <<settingsVars, reprVars, producerVars, snapshotVars>>

InitCommon ==
    /\ old_settings = <<>>
    /\ new_settings = <<>>
    /\ diff = NoCall
    /\ calls = <<>>
    /\ ev = None
    /\ fresh = FALSE
    /\ shown = NoCall
    /\ client_side = FALSE
    /\ heap = <<>>
    /\ building = <<>>
    /\ delivered = <<>>
    /\ dicts = <<>>
    /\ returned = <<>>

----------------------------------------------------------------------------
(* The inputs of from_settings.                                            *)

MaxSettings == 2     \* most entries in one changed-settings mapping

\* HEADER_TABLE_SIZE, ENABLE_PUSH and a code no SettingCodes member has.
SettingSample == {1, 2, 16}
ValueSample == {0, 4096, 8192}

SettingEntries == {[key |-> PyInt(k), value |-> PyInt(v)] : k \in SettingSample, v \in ValueSample}

DistinctKeys(d) == \A i, j \in 1..Len(d) : i # j => ~PyEq(d[i].key, d[j].key)

Ascending(d) == \A i, j \in 1..Len(d) : i < j => d[i].key.v < d[j].key.v

\* Prior settings: any subset of the sample, one order standing for all.
OldSettingsInputs ==
    {d \in SeqsUpTo(SettingEntries, Cardinality(SettingSample)) : Ascending(d)}

\* Changed settings: in every insertion order.
NewSettingsInputs ==
    {d \in SeqsUpTo(SettingEntries, MaxSettings) : DistinctKeys(d)}

FromSettings ==
    /\ diff' = from_settings(old_settings, new_settings)
    /\ UNCHANGED <<old_settings, new_settings, bytesVars, reprVars, producerVars, snapshotVars>>

InitSettings ==
    /\ old_settings \in OldSettingsInputs
    /\ new_settings \in NewSettingsInputs
    /\ diff = NoCall
    /\ calls = <<>>
    /\ ev = None
    /\ fresh = FALSE
    /\ shown = NoCall
    /\ client_side = FALSE
    /\ heap = <<>>
    /\ building = <<>>
    /\ delivered = <<>>
    /\ dicts = <<>>
    /\ returned = <<>>

NextSettings == FromSettings

SpecSettings == InitSettings /\ [][NextSettings]_vars

\* The mappings read as functions of the numeric code.
KeysOf(d) == {d[i].key.v : i \in 1..Len(d)}

ValueAt(d, code) ==
    IF code \in KeysOf(d)
    THEN (CHOOSE en \in {d[i] : i \in 1..Len(d)} : en.key.v = code).value
    ELSE None

Called == diff # NoCall

\* C1: every entry of from_settings(O, N).changed_settings, stored under key
\* k, is a ChangedSetting whose setting is k, whose original_value is O[k]
\* (None when O has no k) and whose new_value is N[k]; O = {1: 4096},
\* N = {1: 8192, 2: 0} gives {1: (4096 -> 8192), 2: (None -> 0)}.
C1_EntriesCarryOldAndNew ==
    Called =>
        /\ ~diff.raised
        /\ \A i \in 1..Len(diff.value.changed_settings) :
              LET en == diff.value.changed_settings[i] IN
              /\ en.value.t = "ChangedSetting"
              /\ en.value.setting = en.key
              /\ en.value.original_value = ValueAt(old_settings, en.key.v)
              /\ en.key.v \in KeysOf(new_settings)
              /\ en.value.new_value = ValueAt(new_settings, en.key.v)
        /\ ( /\ old_settings = <<[key |-> PyInt(1), value |-> PyInt(4096)]>>
             /\ new_settings = <<[key |-> PyInt(1), value |-> PyInt(8192)],
                                 [key |-> PyInt(2), value |-> PyInt(0)]>> )
           => /\ Len(diff.value.changed_settings) = 2
              /\ ValueAt(diff.value.changed_settings, 1).original_value = PyInt(4096)
              /\ ValueAt(diff.value.changed_settings, 1).new_value = PyInt(8192)
              /\ ValueAt(diff.value.changed_settings, 2).original_value = None
              /\ ValueAt(diff.value.changed_settings, 2).new_value = PyInt(0)

C1_Witness ==
    /\ Called
    /\ old_settings = <<[key |-> PyInt(1), value |-> PyInt(4096)]>>
    /\ new_settings = <<[key |-> PyInt(1), value |-> PyInt(8192)],
                        [key |-> PyInt(2), value |-> PyInt(0)]>>
    /\ Len(diff.value.changed_settings) = 2

\* C2: the keys of the diff are exactly the keys of N, one entry each: no
\* entry for a setting that is only in O, and an empty diff for an empty N.
C2_KeysAreThoseOfNew ==
    Called =>
        /\ ~diff.raised
        /\ KeysOf(diff.value.changed_settings) = KeysOf(new_settings)
        /\ Len(diff.value.changed_settings) = Len(new_settings)
        /\ DistinctKeys(diff.value.changed_settings)
        /\ new_settings = <<>> => diff.value.changed_settings = <<>>

C2_Witness ==
    /\ Called
    /\ KeysOf(old_settings) = {1, 2}
    /\ KeysOf(new_settings) = {1}
    /\ KeysOf(diff.value.changed_settings) = {1}

\* C3: a key of N that is no known setting code does not make from_settings
\* raise; the diff has an entry keyed by that raw number, with the
\* original_value O holds under that number and the new_value of N.
C3_UnknownCodeKept ==
    Called =>
        \A code \in KeysOf(new_settings) \ KnownSettingCodes :
            /\ ~diff.raised
            /\ \E i \in 1..Len(diff.value.changed_settings) :
                  LET en == diff.value.changed_settings[i] IN
                  /\ en.key = PyInt(code)
                  /\ en.value.setting = PyInt(code)
                  /\ en.value.original_value = ValueAt(old_settings, code)
                  /\ en.value.new_value = ValueAt(new_settings, code)

C3_Witness ==
    /\ Called
    /\ ~diff.raised
    /\ KeysOf(old_settings) = {1}
    /\ KeysOf(new_settings) = {16, 1}
    /\ 16 \in KeysOf(diff.value.changed_settings)

----------------------------------------------------------------------------
(* The specification of the _bytes_representation calls.                   *)

InitBytes == InitCommon

NextBytes == \E b \in OptionalBytes : CallBytesRepresentation(b)

SpecBytes == InitBytes /\ [][NextBytes]_vars

\* The value of a lower-case hex digit, 16 for any other code point.
HexValue(c) ==
    IF c \in 48..57 THEN c - 48
    ELSE IF c \in 97..102 THEN c - 87
    ELSE 16

IsHexOf(str, b) ==
    /\ Len(str) = 2 * Len(b)
    /\ \A k \in 1..Len(b) :
          /\ HexValue(str[2 * k - 1]) < 16
          /\ HexValue(str[2 * k]) < 16
          /\ 16 * HexValue(str[2 * k - 1]) + HexValue(str[2 * k]) = b[k]

\* C4: _bytes_representation returns None exactly for None, and for a byte
\* string b the lower-case hex string of b: 2*len(b) characters of 0-9a-f,
\* the i-th pair encoding the i-th byte; 00 ff 41 gives "00ff41" and the
\* empty byte string the empty string.
C4_HexOrAbsent ==
    \A i \in 1..Len(calls) :
        LET c == calls[i] IN
        /\ ~c.result.raised
        /\ (c.result.value = None) <=> (c.arg = None)
        /\ c.arg # None =>
              /\ c.result.value.t = "str"
              /\ IsHexOf(c.result.value.v, c.arg.v)
        /\ c.arg = PyBytes(<<0, 255, 65>>) =>
              c.result.value = PyStr(<<48, 48, 102, 102, 52, 49>>)
        /\ c.arg = PyBytes(<<>>) => c.result.value = PyStr(<<>>)

C4_Witness ==
    /\ Len(calls) = 2
    /\ calls[1].arg = None
    /\ calls[2].arg = PyBytes(<<0, 255, 65>>)
    /\ calls[2].result = Return(PyStr(<<48, 48, 102, 102, 52, 49>>))

----------------------------------------------------------------------------
(* The record interface as a holder of one event uses it: construct, write *)
(* a field, take the repr.                                                 *)

MaxTextLen == 2      \* longest origin / field_value enumerated

StreamIds == {1, 3}

\* "A", the two bytes of U+00E9, and a byte no UTF-8 text contains.
TextSample == {65, 195, 169, 255}

TextStrings == {PyBytes(b) : b \in SeqsUpTo(TextSample, MaxTextLen)}

FreshEvents ==
    {RequestReceived_init, ResponseReceived_init, TrailersReceived_init,
     InformationalResponseReceived_init, RemoteSettingsChanged_init,
     SettingsAcknowledged_init, PingReceived_init, PingAckReceived_init,
     StreamEnded_init, PushedStreamReceived_init, PriorityUpdated_init,
     ConnectionTerminated_init, AlternativeServiceAvailable_init,
     UnknownFrameReceived_init}
    \cup {DataReceived([stream_id |-> PyInt(i)]) : i \in StreamIds}
    \cup {WindowUpdated([stream_id |-> PyInt(i)]) : i \in StreamIds}
    \cup {StreamReset([stream_id |-> PyInt(i)]) : i \in StreamIds}

\* The values a field is given, by its annotation.
FieldValues(name) ==
    CASE name \in {"stream_id", "pushed_stream_id", "parent_stream_id",
                   "last_stream_id", "depends_on"} -> {PyInt(i) : i \in StreamIds}
      [] name = "headers" -> {PyList(<<>>)}
      [] name = "stream_ended" ->
            {[StreamEnded_init EXCEPT !.stream_id = PyInt(i)] : i \in StreamIds}
      [] name = "priority_updated" ->
            {[PriorityUpdated_init EXCEPT !.stream_id = PyInt(i)] : i \in StreamIds}
      [] name \in {"data", "ping_data", "additional_data"} -> ByteStrings
      [] name \in {"origin", "field_value"} -> TextStrings
      [] name = "flow_controlled_length" -> {PyInt(0), PyInt(10)}
      [] name \in {"delta", "weight"} -> {PyInt(16)}
      [] name = "error_code" -> {PyInt(0), PyInt(255)}
      [] name \in {"remote_reset", "exclusive"} -> {PyBool(TRUE), PyBool(FALSE)}
      [] name = "changed_settings" ->
            {<<[key |-> _setting_code_from_int(PyInt(1)),
                value |-> ChangedSetting(_setting_code_from_int(PyInt(1)), None, PyInt(0))]>>}
      [] name = "frame" -> {[t |-> "Frame"]}

Construct(e) ==
    /\ ev' = e
    /\ fresh' = TRUE
    /\ shown' = NoCall
    /\ UNCHANGED <<settingsVars, bytesVars, producerVars, snapshotVars>>

\* self.name = value, on a field the class declares.
SetAttr(name, value) ==
    /\ ev # None
    /\ name \in DOMAIN ev \ {"t"}
    /\ ev' = [ev EXCEPT ![name] = value]
    /\ fresh' = FALSE
    /\ shown' = NoCall
    /\ UNCHANGED <<settingsVars, bytesVars, producerVars, snapshotVars>>

Repr ==
    /\ ev # None
    /\ shown' = repr(ev)
    /\ UNCHANGED <<ev, fresh, settingsVars, bytesVars, producerVars, snapshotVars>>

InitRepr == InitCommon

NextRepr ==
    \/ \E e \in FreshEvents : Construct(e)
    \/ \E name \in DOMAIN ev \ {"t"} : \E value \in FieldValues(name) : SetAttr(name, value)
    \/ Repr

SpecRepr == InitRepr /\ [][NextRepr]_vars

Shown == shown # NoCall

\* C7: repr of an event returns a string and does not raise, whatever its
\* fields hold: None, empty or arbitrary bytes, or the placeholder of a lazy
\* field that is still unset.
C7_ReprNeverRaises ==
    Shown => /\ ~shown.raised
             /\ shown.value.t = "str"

\* The rendering _bytes_representation gives a field, as its format field
\* shows it.
HexRendering(field) == Format(_bytes_representation(field).value)

\* C8: every binary field of an event is shown in its repr as the output of
\* _bytes_representation for that field: data, ping_data, additional_data,
\* origin and field_value.
C8_BinaryFieldsShownAsHex ==
    (Shown /\ ~shown.raised) =>
        /\ (ev.t = "DataReceived" /\ ev.data.t = "bytes") =>
              shown.value.args[3] = HexRendering(ev.data)
        /\ ev.t \in {"PingReceived", "PingAckReceived"} =>
              shown.value.args[1] = HexRendering(ev.ping_data)
        /\ ev.t = "ConnectionTerminated" =>
              shown.value.args[3] = HexRendering(ev.additional_data)
        /\ ev.t = "AlternativeServiceAvailable" =>
              /\ shown.value.args[1] = HexRendering(ev.origin)
              /\ shown.value.args[2] = HexRendering(ev.field_value)

NoneText == PyStr(<<78, 111, 110, 101>>)

FirstBytes(b, n) == SubSeq(b, 1, IF Len(b) < n THEN Len(b) ELSE n)

\* The text of an origin or field_value: nothing for None, the bytes
\* themselves when all are ASCII, the UTF-8 decoding without the
\* undecodable bytes otherwise.
IsTextOf(str, field) ==
    /\ str.t = "str"
    /\ field = None => str.v = <<>>
    /\ field # None =>
          /\ (\A i \in 1..Len(field.v) : field.v[i] < 128) => str.v = field.v
          /\ str.v = Utf8Ignore(field.v)
          /\ Len(str.v) <= Len(field.v)

\* C8, amended: ping_data is shown as its lower-case hex (None as None);
\* data as the hex of its first 20 bytes; additional_data as the hex of its
\* first 20 bytes, and as None when it is None or empty; origin and
\* field_value are shown as decoded UTF-8 text, not as hex.
C8_HexExceptAltSvc ==
    (Shown /\ ~shown.raised) =>
        /\ (ev.t = "DataReceived" /\ ev.data.t = "bytes") =>
              /\ shown.value.args[3].t = "str"
              /\ IsHexOf(shown.value.args[3].v, FirstBytes(ev.data.v, ReprLimit))
        /\ ev.t \in {"PingReceived", "PingAckReceived"} =>
              IF ev.ping_data = None
              THEN shown.value.args[1] = NoneText
              ELSE /\ shown.value.args[1].t = "str"
                   /\ IsHexOf(shown.value.args[1].v, ev.ping_data.v)
        /\ ev.t = "ConnectionTerminated" =>
              IF ev.additional_data = None \/ ev.additional_data = PyBytes(<<>>)
              THEN shown.value.args[3] = NoneText
              ELSE /\ shown.value.args[3].t = "str"
                   /\ IsHexOf(shown.value.args[3].v, FirstBytes(ev.additional_data.v, ReprLimit))
        /\ ev.t = "AlternativeServiceAvailable" =>
              /\ IsTextOf(shown.value.args[1], ev.origin)
              /\ IsTextOf(shown.value.args[2], ev.field_value)

C8_Witness ==
    /\ Shown
    /\ ~shown.raised
    /\ ev.t = "AlternativeServiceAvailable"
    /\ ev.origin = PyBytes(<<65, 255>>)
    /\ ev.field_value = PyBytes(<<195, 169>>)
    /\ shown.value.args = <<PyStr(<<65>>), PyStr(<<233>>)>>

\* C10: a freshly constructed RequestReceived, ResponseReceived,
\* TrailersReceived or InformationalResponseReceived has a stream_ended and
\* a priority_updated field, both None.
C10_HeaderEventsHaveBothNested ==
    (fresh /\ ev.t \in HeaderEventClasses) =>
        /\ "stream_ended" \in DOMAIN ev
        /\ ev.stream_ended = None
        /\ "priority_updated" \in DOMAIN ev
        /\ ev.priority_updated = None

\* C10, amended: a freshly constructed RequestReceived, ResponseReceived or
\* TrailersReceived has a stream_ended and a priority_updated field, both
\* None; a fresh InformationalResponseReceived has priority_updated, None,
\* and no stream_ended field.
C10_InformationalHasPriorityOnly ==
    (fresh /\ ev.t \in HeaderEventClasses) =>
        /\ "priority_updated" \in DOMAIN ev
        /\ ev.priority_updated = None
        /\ IF ev.t = "InformationalResponseReceived"
           THEN "stream_ended" \notin DOMAIN ev
           ELSE /\ "stream_ended" \in DOMAIN ev
                /\ ev.stream_ended = None

C10_Witness ==
    /\ fresh
    /\ ev = InformationalResponseReceived_init

----------------------------------------------------------------------------
(* The producer: the connection engine that builds the events of one batch *)
(* and hands the batch to its caller. Each event is an object of the heap; *)
(* a nested field holds a reference to another object.                     *)

Ref(id) == [t |-> "ref", id |-> id]

HeaderEvent_init(cls) ==
    CASE cls = "RequestReceived" -> RequestReceived_init
      [] cls = "ResponseReceived" -> ResponseReceived_init
      [] cls = "TrailersReceived" -> TrailersReceived_init
      [] cls = "InformationalResponseReceived" -> InformationalResponseReceived_init

\* What the occurrences of the model carry: one payload, padded by one
\* byte, and one error code outside the known set.
ProducerPayloads == {PyBytes(<<65>>)}
Paddings == {1}
ErrorCodes == {255}

\* The second phase of a DataReceived with only the payload filled in.
PopulateData_payload_only(e, data, flow_controlled_length) ==
    [e EXCEPT !.data = data]

\* The second phase of a DataReceived with the padding taken off the
\* payload length instead of added to it.
PopulateData_minus_padding(e, data, flow_controlled_length) ==
    [e EXCEPT !.data = data,
              !.flow_controlled_length = PyInt(2 * Len(data.v) - flow_controlled_length)]

\* The second phase of a DataReceived: the lazy fields get their values.
PopulateData(e, data, flow_controlled_length) ==
    [e EXCEPT !.data = data, !.flow_controlled_length = PyInt(flow_controlled_length)]

\* The second phase of a StreamReset.
PopulateReset(e, error_code, remote_reset) ==
    [e EXCEPT !.error_code = PyInt(error_code), !.remote_reset = PyBool(remote_reset)]

\* The batch entries of an occurrence that keeps its nested events to
\* itself.
BatchEntries_nested_only(primary, nested) == <<primary>>

\* The batch entries of one occurrence: the primary event, then the events
\* nested in it.
BatchEntries(primary, nested) == <<primary>> \o nested

\* The header events a connection reports: a server receives requests, a
\* client responses; both receive trailers.
ReceivedHeaderClasses ==
    IF client_side
    THEN {"ResponseReceived", "InformationalResponseReceived", "TrailersReceived"}
    ELSE {"RequestReceived", "TrailersReceived"}

CanBuild(n) == Len(building) + n <= MaxBatchLen

\* A complete header block on stream sid; ends: it also ends the stream,
\* as trailers always do; prio: it carries priority information.
ReceiveHeaders(cls, sid, ends, prio) ==
    LET fresh0 == HeaderEvent_init(cls)
        primaryId == Len(heap) + 1
        endedId == primaryId + 1
        prioId == IF ends THEN primaryId + 2 ELSE primaryId + 1
        ended == [StreamEnded_init EXCEPT !.stream_id = PyInt(sid)]
        priority == [PriorityUpdated_init EXCEPT !.stream_id = PyInt(sid),
                        !.weight = PyInt(16), !.depends_on = PyInt(0),
                        !.exclusive = PyBool(FALSE)]
        withIds == [fresh0 EXCEPT !.stream_id = PyInt(sid), !.headers = PyList(<<>>)]
        withEnded == IF ends THEN [withIds EXCEPT !.stream_ended = Ref(endedId)] ELSE withIds
        primary == IF prio THEN [withEnded EXCEPT !.priority_updated = Ref(prioId)] ELSE withEnded
        nestedObjs == (IF ends THEN <<ended>> ELSE <<>>) \o (IF prio THEN <<priority>> ELSE <<>>)
        nestedIds == (IF ends THEN <<endedId>> ELSE <<>>) \o (IF prio THEN <<prioId>> ELSE <<>>)
    IN  /\ cls \in ReceivedHeaderClasses
        /\ cls = "TrailersReceived" => ends
        /\ ends => "stream_ended" \in DOMAIN fresh0
        /\ CanBuild(1 + Len(nestedIds))
        /\ heap' = heap \o <<primary>> \o nestedObjs
        /\ building' = building \o BatchEntries(primaryId, nestedIds)
        /\ UNCHANGED <<client_side, delivered, settingsVars, bytesVars, reprVars, snapshotVars>>

\* A DATA frame on stream sid: payload, padding, and whether it ends the
\* stream.
ReceiveData(sid, data, padding, ends) ==
    LET primaryId == Len(heap) + 1
        endedId == primaryId + 1
        ended == [StreamEnded_init EXCEPT !.stream_id = PyInt(sid)]
        created == DataReceived([stream_id |-> PyInt(sid)])
        filled == PopulateData(created, data, Len(data.v) + padding)
        primary == IF ends THEN [filled EXCEPT !.stream_ended = Ref(endedId)] ELSE filled
        nestedObjs == IF ends THEN <<ended>> ELSE <<>>
        nestedIds == IF ends THEN <<endedId>> ELSE <<>>
    IN  /\ CanBuild(1 + Len(nestedIds))
        /\ heap' = heap \o <<primary>> \o nestedObjs
        /\ building' = building \o BatchEntries(primaryId, nestedIds)
        /\ UNCHANGED <<client_side, delivered, settingsVars, bytesVars, reprVars, snapshotVars>>

\* A stream reset, by the peer or by the engine itself.
ResetStream(sid, error_code, remote_reset) ==
    LET created == StreamReset([stream_id |-> PyInt(sid)])
        primary == PopulateReset(created, error_code, remote_reset)
    IN  /\ CanBuild(1)
        /\ heap' = Append(heap, primary)
        /\ building' = Append(building, Len(heap) + 1)
        /\ UNCHANGED <<client_side, delivered, settingsVars, bytesVars, reprVars, snapshotVars>>

\* The batch handed out while the engine keeps its list of events.
Deliver_keep ==
    /\ Len(delivered) < MaxBatches
    /\ delivered' = Append(delivered, building)
    /\ building' = building
    /\ UNCHANGED <<client_side, heap, settingsVars, bytesVars, reprVars, snapshotVars>>

\* The batch is handed to the caller.
Deliver ==
    /\ Len(delivered) < MaxBatches
    /\ delivered' = Append(delivered, building)
    /\ building' = <<>>
    /\ UNCHANGED <<client_side, heap, settingsVars, bytesVars, reprVars, snapshotVars>>

Init ==
    /\ client_side \in BOOLEAN
    /\ heap = <<>>
    /\ building = <<>>
    /\ delivered = <<>>
    /\ dicts = <<>>
    /\ returned = <<>>
    /\ old_settings = <<>>
    /\ new_settings = <<>>
    /\ diff = NoCall
    /\ calls = <<>>
    /\ ev = None
    /\ fresh = FALSE
    /\ shown = NoCall

Next ==
    \/ \E cls \in HeaderEventClasses, sid \in StreamIds, ends \in BOOLEAN, prio \in BOOLEAN :
          ReceiveHeaders(cls, sid, ends, prio)
    \/ \E sid \in StreamIds, data \in ProducerPayloads, padding \in Paddings, ends \in BOOLEAN :
          ReceiveData(sid, data, padding, ends)
    \/ \E sid \in StreamIds, error_code \in ErrorCodes, remote_reset \in {TRUE} :
          ResetStream(sid, error_code, remote_reset)
    \/ Deliver

Spec == Init /\ [][Next]_vars

\* The events of the delivered batches.
DeliveredIds ==
    UNION {{delivered[b][i] : i \in 1..Len(delivered[b])} : b \in 1..Len(delivered)}

\* C6: no event of a delivered batch holds the placeholder _LAZY_INIT in a
\* field: the data and flow_controlled_length of a delivered DataReceived
\* and the error_code of a delivered StreamReset are real values, though
\* the constructors leave the placeholder in them.
C6_NoPlaceholderDelivered ==
    \A id \in DeliveredIds :
        LET e == heap[id] IN
        /\ \A f \in DOMAIN e \ {"t"} : e[f] # _LAZY_INIT
        /\ e.t = "DataReceived" =>
              /\ e.data.t = "bytes"
              /\ e.flow_controlled_length.t = "int"
        /\ e.t = "StreamReset" => e.error_code.t = "int"

C6_Witness ==
    \E b \in 1..Len(delivered) :
        /\ Len(delivered[b]) = 2
        /\ heap[delivered[b][1]].t = "DataReceived"
        /\ heap[delivered[b][1]].data = PyBytes(<<65>>)
        /\ heap[delivered[b][2]].t = "StreamReset"
        /\ DataReceived([stream_id |-> PyInt(1)]).data = _LAZY_INIT

InBatch(batch, cls, stream_id) ==
    \E j \in 1..Len(batch) :
        /\ heap[batch[j]].t = cls
        /\ heap[batch[j]].stream_id = stream_id

NestedIds(e) ==
    {e[f].id : f \in {g \in DOMAIN e \cap {"stream_ended", "priority_updated"} : e[g] # None}}

HandedOut == DeliveredIds \cup UNION {NestedIds(heap[id]) : id \in DeliveredIds}

Hello == PyBytes(<<104, 101, 108, 108, 111>>)

----------------------------------------------------------------------------
(* from_settings on dict objects.  The caller holds two dicts, O (the     *)
(* prior settings) and N (the changed settings), and goes on changing     *)
(* them between calls; each call builds its event on a dict of its own.    *)

DictRef(id) == [t |-> "dict", id |-> id]

O == 1
N == 2

\* An event class whose changed_settings is one dict kept on the class.
RemoteSettingsChanged_new_shared(store) ==
    IF Len(store) > N
    THEN [store |-> store,
          e |-> [RemoteSettingsChanged_init EXCEPT !.changed_settings = DictRef(N + 1)]]
    ELSE [store |-> Append(store, RemoteSettingsChanged_init.changed_settings),
          e |-> [RemoteSettingsChanged_init EXCEPT !.changed_settings = DictRef(Len(store) + 1)]]

\* e = cls(): __init__ binds changed_settings to a new empty dict.
RemoteSettingsChanged_new(store) ==
    [store |-> Append(store, RemoteSettingsChanged_init.changed_settings),
     e |-> [RemoteSettingsChanged_init EXCEPT !.changed_settings = DictRef(Len(store) + 1)]]

\* from_settings(old, new) on the dicts of store: the only write of the
\* loop is e.changed_settings[s] = change.
from_settings_at(store, old, new) ==
    LET made == RemoteSettingsChanged_new(store)
        id == made.e.changed_settings.id
        filled == from_settings_loop([made.e EXCEPT !.changed_settings = made.store[id]],
                                     made.store[old], made.store[new])
    IN  IF filled.raised
        THEN [store |-> made.store, result |-> filled]
        ELSE [store |-> [made.store EXCEPT ![id] = filled.value.changed_settings],
              result |-> Return(made.e)]

\* HEADER_TABLE_SIZE and a code no SettingCodes member has.
SnapshotKeys == {PyInt(1), PyInt(16)}
OldValues == {PyInt(4096), PyInt(8192)}
NewValues == {PyInt(8192)}

ValuesOf(target) == IF target = O THEN OldValues ELSE NewValues

\* del d[k]
DictDel(d, k) == SelectSeq(d, LAMBDA entry : ~PyEq(entry.key, k))

CallFromSettings ==
    /\ Len(returned) < MaxDiffs
    /\ LET r == from_settings_at(dicts, O, N)
       IN  /\ dicts' = r.store
           /\ returned' = IF r.result.raised THEN returned
                          ELSE Append(returned, r.result.value)
    /\ UNCHANGED <<settingsVars, bytesVars, reprVars, producerVars>>

\* The caller sets an entry of O or of N.
SetItem(target, k, v) ==
    /\ dicts' = [dicts EXCEPT ![target] = DictSet(@, k, v)]
    /\ UNCHANGED <<returned, settingsVars, bytesVars, reprVars, producerVars>>

\* The caller deletes an entry of O or of N.
DelItem(target, k) ==
    /\ HasKey(dicts[target], k)
    /\ dicts' = [dicts EXCEPT ![target] = DictDel(@, k)]
    /\ UNCHANGED <<returned, settingsVars, bytesVars, reprVars, producerVars>>

InitSnapshot ==
    /\ dicts = <<<<>>, <<>>>>
    /\ returned = <<>>
    /\ old_settings = <<>>
    /\ new_settings = <<>>
    /\ diff = NoCall
    /\ calls = <<>>
    /\ ev = None
    /\ fresh = FALSE
    /\ shown = NoCall
    /\ client_side = FALSE
    /\ heap = <<>>
    /\ building = <<>>
    /\ delivered = <<>>

NextSnapshot ==
    \/ CallFromSettings
    \/ \E target \in {O, N}, k \in SnapshotKeys : \E v \in ValuesOf(target) :
          SetItem(target, k, v)
    \/ \E target \in {O, N}, k \in SnapshotKeys : DelItem(target, k)

SpecSnapshot == InitSnapshot /\ [][NextSnapshot]_vars

\* The dicts the returned events hold.
ReturnedDicts == {returned[i].changed_settings.id : i \in 1..Len(returned)}

\* C13: a from_settings call leaves O and N as they were and returns an
\* event on a new dict, shared with no other event and holding the diff of
\* O and N as they are at the call; no later step, a change of O or N or
\* another from_settings call, changes an event already returned or the
\* entries of its changed_settings.
C13_DiffIsSnapshot ==
    [][/\ \A i \in 1..Len(returned) :
             /\ returned'[i] = returned[i]
             /\ dicts'[returned[i].changed_settings.id] = dicts[returned[i].changed_settings.id]
       /\ Len(returned') > Len(returned) =>
             LET id == returned'[Len(returned')].changed_settings.id
             IN  /\ dicts'[O] = dicts[O]
                 /\ dicts'[N] = dicts[N]
                 /\ id > Len(dicts)
                 /\ id \notin {O, N} \cup ReturnedDicts
                 /\ dicts'[id] = from_settings(dicts[O], dicts[N]).value.changed_settings]_vars

\* Two diffs returned, O and N changed in between and afterwards.
C13_Witness ==
    /\ Len(returned) = 2
    /\ dicts[returned[1].changed_settings.id] # <<>>
    /\ dicts[returned[1].changed_settings.id] # dicts[returned[2].changed_settings.id]
    /\ \A i \in 1..2 :
          dicts[returned[i].changed_settings.id]
              # from_settings(dicts[O], dicts[N]).value.changed_settings

=============================================================================
